---- MODULE Spec2Model ----
(***************************************************************************)
(* Project Planner (src/planner.py).                                       *)
(*                                                                         *)
(* order_tasks is a state machine with one step per evaluation of the      *)
(* while test, per iteration of the for loop and per end-of-pass test.     *)
(* The iteration order of list(incomplete) is the arbitrary order of a     *)
(* Python set: each iteration visits any element not yet visited.          *)
(*                                                                         *)
(* Spec runs order_tasks on every repository over TaskIds and Durations,   *)
(* and once more after it returned, on the same repository or on the one   *)
(* with a single duration raised.  SpecApp is the application: the         *)
(* handlers of the buttons, the loaders and draw_chart around order_tasks, *)
(* from the state in which the main loop starts.                           *)
(*                                                                         *)
(* Durations are floats in the program and integers here.  The canvas is   *)
(* the set of task bars (position and width); week lines, texts, colours   *)
(* and tooltips are left out.  A handler whose file dialog is cancelled    *)
(* changes nothing and is a stuttering step.                               *)
(***************************************************************************)
EXTENDS Integers, FiniteSets, Sequences, TLC

\* ------------------------------------------------------------------ bounds
MaxDur == 1
MaxRows == 2
MaxLoads == 2

\* Task ids and durations of the repositories order_tasks is run on.  A
\* negative duration is one float(row[2]) accepts (line 37).
TaskIds == {1, 2, 3}
Durations == (-1)..MaxDur
Titles == {"A"}

\* Task = namedtuple("Task", ["title", "duration", "prerequisites"])
Task == [title : Titles, duration : Durations, prerequisites : SUBSET TaskIds]

\* A repository: a dict from task id to Task.
Repositories == UNION {[K -> Task] : K \in SUBSET TaskIds}

EmptyDict == <<>>
\* json_file holds the document of the written file, and nothing before a save
NoFile == {}

VARIABLES
    tasks,        \* the repository order_tasks is called with
    pc,           \* position in order_tasks / its caller
    incomplete,   \* order_tasks: set of ids still to schedule
    completed,    \* order_tasks: set of ids scheduled
    start_days,   \* order_tasks: dict id -> start day
    progress,     \* order_tasks: flag of the current pass
    todo,         \* order_tasks: elements of list(incomplete) not yet visited
    exc,          \* the exception raised by order_tasks, "" when none
    passes,       \* number of passes of the while loop started in this run
    has_prev,     \* TRUE once a run of order_tasks has returned to its caller
    prev_tasks,   \* the repository of the most recent run that returned
    prev_schedule, \* the schedule that run returned
    canvas,       \* the bars on the canvas
    canvas_before, \* the bars on the canvas when draw_chart was last called
    message,      \* text of the last messagebox.showerror, "" when none
    uncaught,     \* exception that left the last handler uncaught, "" when none
    json_file,    \* the document last written by save_tasks_json
    loads         \* number of open_csv / load_json handlers run

sched == <<incomplete, completed, start_days, progress, todo, exc, passes>>
prev == <<has_prev, prev_tasks, prev_schedule>>
app == <<canvas, canvas_before, message, uncaught, json_file, loads>>
vars == <<tasks, pc, sched, prev, app>>

\* ------------------------------------------------------------- order_tasks
CircularMsg == "Circular dependency detected"

\* max(iterable, default=0)
MaxOf(S) == IF S = {} THEN 0 ELSE CHOOSE m \in S : \A v \in S : v <= m

\* Mutant of Resolvable: a task's dependency on itself is not looked at.
ResolvableIgnoringSelf(t) == (tasks[t].prerequisites \ {t}) \subseteq completed

\* Mutant of Resolvable: prerequisite ids that are no key are not looked at.
ResolvableKnownOnly(t) == (tasks[t].prerequisites \cap DOMAIN tasks) \subseteq completed

\* Mutant of Resolvable: a proper-subset test (<) in place of issubset.
ResolvableProperSubset(t) ==
    tasks[t].prerequisites \subseteq completed /\ tasks[t].prerequisites # completed

\* line 81: task.prerequisites.issubset(completed)
Resolvable(t) == tasks[t].prerequisites \subseteq completed

\* lines 83-86: the generator reads start_days[p] and tasks[p] for every p
LookupsDefined(t) ==
    \A p \in tasks[t].prerequisites : p \in DOMAIN start_days /\ p \in DOMAIN tasks

\* Mutant of earliest_start: min in place of max.
earliest_start_min(t) ==
    LET S == {start_days[p] + tasks[p].duration : p \in tasks[t].prerequisites}
    IN IF S = {} THEN 0 ELSE CHOOSE m \in S : \A v \in S : m <= v

\* Mutant of earliest_start: the generator runs over completed, not over the
\* task's own prerequisites.
earliest_start_after_completed(t) ==
    MaxOf({start_days[p] + tasks[p].duration : p \in completed})

\* Mutant of earliest_start: the prerequisite's duration is subtracted.
earliest_start_minus(t) ==
    MaxOf({start_days[p] - tasks[p].duration : p \in tasks[t].prerequisites})

\* lines 83-86
earliest_start(t) ==
    MaxOf({start_days[p] + tasks[p].duration : p \in tasks[t].prerequisites})

\* lines 72-74: entry of order_tasks, called with the repository repo
Enter(repo) ==
    /\ incomplete' = DOMAIN repo
    /\ completed' = {}
    /\ start_days' = EmptyDict
    /\ progress' = FALSE
    /\ todo' = {}
    /\ exc' = ""
    /\ passes' = 0
    /\ pc' = "while"

\* line 76: while incomplete
WhileCond == incomplete # {}

\* lines 76-78 and 93
WhileTest ==
    /\ pc = "while"
    /\ IF WhileCond
       THEN /\ progress' = FALSE
            /\ todo' = incomplete
            /\ passes' = passes + 1
            /\ pc' = "for"
       ELSE /\ pc' = "returned"
            /\ UNCHANGED <<progress, todo, passes>>
    /\ UNCHANGED <<tasks, incomplete, completed, start_days, exc, prev, app>>

\* Mutant of ForBody: incomplete.remove(task_number) is left out.
ForBodyNoRemove(task_number) ==
    /\ pc = "for"
    /\ task_number \in todo
    /\ todo' = todo \ {task_number}
    /\ IF Resolvable(task_number)
       THEN IF LookupsDefined(task_number)
            THEN /\ start_days' = (task_number :> earliest_start(task_number)) @@ start_days
                 /\ completed' = completed \cup {task_number}
                 /\ progress' = TRUE
                 /\ UNCHANGED <<incomplete, pc, exc>>
            ELSE /\ exc' = "KeyError"
                 /\ pc' = "raised"
                 /\ UNCHANGED <<start_days, completed, incomplete, progress>>
       ELSE UNCHANGED <<start_days, completed, incomplete, progress, pc, exc>>
    /\ UNCHANGED <<tasks, passes, prev, app>>

\* lines 78-90: one iteration of the for loop, for the element task_number
ForBody(task_number) ==
    /\ pc = "for"
    /\ task_number \in todo
    /\ todo' = todo \ {task_number}
    /\ IF Resolvable(task_number)
       THEN IF LookupsDefined(task_number)
            THEN /\ start_days' = (task_number :> earliest_start(task_number)) @@ start_days
                 /\ completed' = completed \cup {task_number}
                 /\ incomplete' = incomplete \ {task_number}
                 /\ progress' = TRUE
                 /\ UNCHANGED <<pc, exc>>
            ELSE /\ exc' = "KeyError"
                 /\ pc' = "raised"
                 /\ UNCHANGED <<start_days, completed, incomplete, progress>>
       ELSE UNCHANGED <<start_days, completed, incomplete, progress, pc, exc>>
    /\ UNCHANGED <<tasks, passes, prev, app>>

\* Mutant of NoProgress: the end-of-pass test never fires.
NoProgressNever == FALSE

\* line 91: if not progress
NoProgress == ~progress

\* Mutant of PassEnd: a pass without progress leaves the loop (break) and
\* the schedule built so far is returned.
PassEndBreak ==
    /\ pc = "for"
    /\ todo = {}
    /\ pc' = IF NoProgress THEN "returned" ELSE "while"
    /\ UNCHANGED <<tasks, sched, prev, app>>

\* lines 91-92: end of a pass
PassEnd ==
    /\ pc = "for"
    /\ todo = {}
    /\ IF NoProgress
       THEN /\ exc' = CircularMsg
            /\ pc' = "raised"
       ELSE /\ pc' = "while"
            /\ UNCHANGED exc
    /\ UNCHANGED <<tasks, incomplete, completed, start_days, progress, todo, passes, prev, app>>

\* The caller keeps the returned schedule and calls order_tasks again
\* (draw_chart is called anew by every handler): on the same repository when
\* d is the duration of x, on the repository with the duration of x raised to d
\* otherwise.
Reschedule(x, d) ==
    /\ pc = "returned"
    /\ ~has_prev
    /\ x \in DOMAIN tasks
    /\ d \in Durations
    /\ d >= tasks[x].duration
    /\ has_prev' = TRUE
    /\ prev_tasks' = tasks
    /\ prev_schedule' = start_days
    /\ tasks' = [tasks EXCEPT ![x].duration = d]
    /\ Enter([tasks EXCEPT ![x].duration = d])
    /\ UNCHANGED app

Init ==
    /\ tasks \in Repositories
    /\ pc = "while"
    /\ incomplete = DOMAIN tasks
    /\ completed = {}
    /\ start_days = EmptyDict
    /\ progress = FALSE
    /\ todo = {}
    /\ exc = ""
    /\ passes = 0
    /\ has_prev = FALSE
    /\ prev_tasks = EmptyDict
    /\ prev_schedule = EmptyDict
    /\ canvas = {}
    /\ canvas_before = {}
    /\ message = ""
    /\ uncaught = ""
    /\ json_file = NoFile
    /\ loads = 0

order_tasks ==
    \/ WhileTest
    \/ \E t \in TaskIds : ForBody(t)
    \/ PassEnd

Next ==
    \/ order_tasks
    \/ \E x \in TaskIds, d \in Durations : Reschedule(x, d)

Spec == Init /\ [][Next]_vars

\* ------------------------------------------------- properties of order_tasks
\* The ids task t depends on, directly or through other tasks of repository R.
RECURSIVE ReachFrom(_, _, _)
ReachFrom(R, S, n) ==
    IF n = 0 THEN S
    ELSE ReachFrom(R, S \cup UNION {R[t].prerequisites : t \in S \cap DOMAIN R}, n - 1)

Ancestors(R, t) == ReachFrom(R, R[t].prerequisites, Cardinality(DOMAIN R))

HasCycle(R) == \E t \in DOMAIN R : t \in Ancestors(R, t)

HasMissing(R) == \E t \in DOMAIN R : ~(R[t].prerequisites \subseteq DOMAIN R)

Finish(t) == start_days[t] + tasks[t].duration

\* C1: in a returned schedule every task without prerequisites starts at 0
\* and every other task starts at the largest start + duration of its
\* prerequisites.
C1_EarliestStart ==
    pc = "returned" =>
        \A t \in DOMAIN start_days :
            LET P == tasks[t].prerequisites IN
            /\ P \subseteq DOMAIN start_days
            /\ IF P = {} THEN start_days[t] = 0
               ELSE /\ \E p \in P : start_days[t] = Finish(p)
                    /\ \A p \in P : start_days[t] >= Finish(p)

C1_Witness ==
    /\ pc = "returned"
    /\ \E t \in DOMAIN start_days : \E p, q \in tasks[t].prerequisites :
           Finish(p) < Finish(q) /\ Finish(q) < 0

\* C2: on a repository with a dependency cycle (a self-dependency included)
\* order_tasks never returns a schedule; the exception it raises is the
\* circular-dependency error.
C2_CycleRejected ==
    HasCycle(tasks) =>
        /\ pc # "returned"
        /\ pc = "raised" => exc = CircularMsg

C2_Witness ==
    /\ HasCycle(tasks)
    /\ ~HasMissing(tasks)
    /\ pc = "raised"
    /\ completed # {}

\* C3: on a repository where a task lists a prerequisite that is no key,
\* order_tasks never returns and never raises a lookup error, the exception
\* it raises is the circular-dependency error, and neither the task with the
\* missing prerequisite nor a task depending on it is ever scheduled.
C3_MissingPrerequisite ==
    HasMissing(tasks) =>
        /\ pc # "returned"
        /\ exc # "KeyError"
        /\ pc = "raised" => exc = CircularMsg
        /\ \A t \in completed \cup DOMAIN start_days :
               Ancestors(tasks, t) \subseteq DOMAIN tasks

C3_Witness ==
    /\ HasMissing(tasks)
    /\ ~HasCycle(tasks)
    /\ pc = "raised"
    /\ exc = CircularMsg
    /\ \E t \in incomplete : /\ tasks[t].prerequisites \subseteq DOMAIN tasks
                             /\ ~(Ancestors(tasks, t) \subseteq DOMAIN tasks)

\* C7: a returned schedule has exactly the repository's ids as its keys.
C7_Totality == pc = "returned" => DOMAIN start_days = DOMAIN tasks

C7_Witness ==
    /\ pc = "returned"
    /\ DOMAIN tasks = TaskIds
    /\ DOMAIN start_days = TaskIds
    /\ passes = 3

\* C8: a second run of order_tasks on the same repository, whatever order
\* its passes visit the pending tasks in, never raises, gives every task the
\* start the first run gave it and returns the same schedule.
C8_Deterministic ==
    (has_prev /\ prev_tasks = tasks) =>
        /\ pc # "raised"
        /\ \A t \in DOMAIN start_days :
               t \in DOMAIN prev_schedule /\ start_days[t] = prev_schedule[t]
        /\ pc = "returned" => start_days = prev_schedule

C8_Witness ==
    /\ has_prev
    /\ prev_tasks = tasks
    /\ pc = "returned"
    /\ passes = 2
    /\ \E t \in DOMAIN tasks : Cardinality(tasks[t].prerequisites) = 2

\* The repository is the previous one with only the duration of x made larger.
LengthenedAt(x) ==
    /\ x \in DOMAIN prev_tasks
    /\ x \in DOMAIN tasks
    /\ tasks[x].duration > prev_tasks[x].duration
    /\ tasks = [prev_tasks EXCEPT ![x].duration = tasks[x].duration]

\* C9: when only the duration of task x grows, no task depending on x
\* starts earlier and every other task (x included) keeps its start.
C9_Monotone ==
    (pc = "returned" /\ has_prev) =>
        \A x \in TaskIds : LengthenedAt(x) =>
            \A t \in DOMAIN start_days :
                IF x \in Ancestors(tasks, t)
                THEN start_days[t] >= prev_schedule[t]
                ELSE start_days[t] = prev_schedule[t]

C9_Witness ==
    /\ pc = "returned"
    /\ has_prev
    /\ \E x \in TaskIds :
          /\ LengthenedAt(x)
          /\ \E t \in DOMAIN start_days :
                x \in Ancestors(tasks, t) /\ start_days[t] > prev_schedule[t]
          /\ \E t \in DOMAIN start_days \ {x} : x \notin Ancestors(tasks, t)

\* A natural number that every step of order_tasks makes smaller.
Variant ==
    LET K == Cardinality(DOMAIN tasks) + 3 IN
    CASE pc = "while" -> Cardinality(incomplete) * K + K - 1
      [] pc = "for" -> Cardinality(incomplete) * K + Cardinality(todo)
                       + (IF progress THEN K ELSE 1)
      [] OTHER -> 0

\* C10: a run of order_tasks always ends: while it has neither returned nor
\* raised a step is possible, every step lowers a natural-number variant, a
\* pass that ends without raising has resolved a task, and a run starts at
\* most |V| passes.
C10_RunsToCompletion ==
    /\ [](pc \in {"while", "for"} => ENABLED order_tasks)
    /\ [](passes <= Cardinality(DOMAIN tasks))
    /\ [][order_tasks => (Variant' < Variant /\ Variant' >= 0)]_vars
    /\ [][(PassEnd /\ pc' = "while") => progress]_vars

C10_Witness ==
    /\ pc = "raised"
    /\ passes = 3
    /\ Cardinality(DOMAIN tasks) = 3
\* C13: on a repository without a dependency cycle and without a
\* prerequisite that is no key, order_tasks never raises: a pass that ends
\* has made progress, and the run returns a schedule.
C13_RaisesOnlyWhenUnschedulable ==
    (~HasCycle(tasks) /\ ~HasMissing(tasks)) =>
        /\ pc # "raised"
        /\ exc = ""
        /\ (pc = "for" /\ todo = {}) => progress

C13_Witness ==
    /\ ~HasCycle(tasks)
    /\ ~HasMissing(tasks)
    /\ pc = "returned"
    /\ DOMAIN tasks = TaskIds
    /\ passes = 3
    /\ \E t \in DOMAIN tasks : Cardinality(tasks[t].prerequisites) = 2

\* C14: at every point of a run incomplete and completed are disjoint, their
\* union is the set of the repository's ids and the keys of start_days are
\* the completed ids; so for a task whose prerequisites are all completed
\* every start_days[p] and tasks[p] read for a prerequisite p is defined.
C14_PendingResolvedPartition ==
    /\ incomplete \cap completed = {}
    /\ incomplete \cup completed = DOMAIN tasks
    /\ DOMAIN start_days = completed
    /\ \A t \in incomplete :
           tasks[t].prerequisites \subseteq completed =>
               \A p \in tasks[t].prerequisites :
                   p \in DOMAIN start_days /\ p \in DOMAIN tasks

C14_Witness ==
    /\ pc = "for"
    /\ completed # {}
    /\ \E t \in todo : /\ tasks[t].prerequisites # {}
                       /\ tasks[t].prerequisites \subseteq completed
    /\ Cardinality(incomplete) >= 2

\* ------------------------------------------------------------ file loaders
\* int() and float() of a CSV field: the numerals of the model, anything else
\* raises ValueError.
Numerals == {"-1", "0", "1", "2", "3"}

ParseNum(s) ==
    CASE s = "-1" -> 0 - 1
      [] s = "0" -> 0
      [] s = "1" -> 1
      [] s = "2" -> 2
      [] s = "3" -> 3

\* A CSV row is the list of its fields; the 4th field, when present, is
\* given as the list of words row[3].split() yields.
CsvRows ==
    {<<"1", "A">>}
    \cup {<<i, "A", d>> : i \in {"1", "2", "x"}, d \in {"-1", "1"}}
    \cup {<<i, "A", d, w>> : i \in {"1", "2", "x"}, d \in {"-1", "1"},
                             w \in {<<"2">>, <<"x">>, <<"2", "x">>}}

SeqsUpTo(S, n) == UNION {[1..k -> S] : k \in 0..n}

CsvFiles == SeqsUpTo(CsvRows, MaxRows)

\* lines 34-43: the try block succeeds on the row
RowParses(row) ==
    /\ row[1] \in Numerals
    /\ row[3] \in Numerals
    /\ Len(row) > 3 => \A k \in 1..Len(row[4]) : row[4][k] \in Numerals

\* line 39
RowPrereqs(row) ==
    IF Len(row) > 3 /\ row[4] # <<>>
    THEN {ParseNum(row[4][k]) : k \in 1..Len(row[4])}
    ELSE {}

\* lines 28-44
RECURSIVE read_tasks_csv_from(_, _, _)
read_tasks_csv_from(file, k, result) ==
    IF k > Len(file) THEN result
    ELSE LET row == file[k] IN
         IF Len(row) < 3 \/ ~RowParses(row)
         THEN read_tasks_csv_from(file, k + 1, result)
         ELSE LET task_id == ParseNum(row[1])
                  task == [title |-> row[2], duration |-> ParseNum(row[3]),
                           prerequisites |-> RowPrereqs(row)]
                  others == [i \in DOMAIN result \ {task_id} |-> result[i]]
              IN read_tasks_csv_from(file, k + 1, (task_id :> task) @@ others)

read_tasks_csv(file) == read_tasks_csv_from(file, 1, EmptyDict)

\* A JSON document {"tasks": [...]} is the list of its entries.
JsonEntries ==
    [id : {1, 2}, title : Titles, duration : {0 - 1, 1},
     prerequisites : {<<>>, <<2>>}]

JsonDocs == SeqsUpTo(JsonEntries, MaxRows)

Range(f) == {f[k] : k \in DOMAIN f}

\* lines 56-63
RECURSIVE load_tasks_json_from(_, _, _)
load_tasks_json_from(data, k, result) ==
    IF k > Len(data) THEN result
    ELSE LET t == data[k]
             task == [title |-> t.title, duration |-> t.duration,
                      prerequisites |-> Range(t.prerequisites)]
             others == [i \in DOMAIN result \ {t.id} |-> result[i]]
         IN load_tasks_json_from(data, k + 1, (t.id :> task) @@ others)

\* Mutant of load_tasks_json: the result is keyed by the entry's position in
\* the list, not by t["id"].
load_tasks_json_by_position(data) ==
    [k \in 1..Len(data) |->
        [title |-> data[k].title, duration |-> data[k].duration,
         prerequisites |-> Range(data[k].prerequisites)]]

load_tasks_json(data) == load_tasks_json_from(data, 1, EmptyDict)

\* list(S) of a set, and the items of a dict, in any order
ListsOf(S) == {l \in [1..Cardinality(S) -> S] : Range(l) = S}

\* line 49: the entry written for task i
JsonEntriesOf(i) ==
    [id : {i}, title : {tasks[i].title}, duration : {tasks[i].duration},
     prerequisites : ListsOf(tasks[i].prerequisites)]

\* lines 48-51: the documents save_tasks_json can write for the repository
save_tasks_json ==
    UNION {{data \in [1..Len(order) -> UNION {JsonEntriesOf(i) : i \in DOMAIN tasks}] :
               \A k \in 1..Len(order) : data[k] \in JsonEntriesOf(order[k])}
           : order \in ListsOf(DOMAIN tasks)}

\* ------------------------------------------------------------- draw_chart
title_width == 250
canvas_width == 1000

\* int(x / 5): truncation towards zero
TruncDiv(a, b) == IF a >= 0 THEN a \div b ELSE 0 - ((0 - a) \div b)

\* Python's // for a divisor that is not 0
FloorDiv(a, b) == IF b > 0 THEN a \div b ELSE (0 - a) \div (0 - b)

\* line 109 (evaluated for a non-empty repository only: max() of an empty
\* sequence raises ValueError, see DrawChartReturn)
total_days == MaxOf({start_days[t] + tasks[t].duration : t \in DOMAIN tasks})

\* line 110
total_weeks == TruncDiv(total_days, 5) + 1

\* line 112
day_width == FloorDiv(canvas_width - title_width, total_weeks * 5)

\* lines 130-148: one rectangle per key of start_days
Bars ==
    {[task_id |-> t,
      bar_x |-> title_width + start_days[t] * day_width,
      bar_width |-> tasks[t].duration * day_width] : t \in DOMAIN start_days}

\* lines 102-104: draw_chart up to the first step of order_tasks
DrawChartEnter(repo) ==
    /\ canvas_before' = canvas
    /\ canvas' = {}
    /\ Enter(repo)

\* lines 109-148: order_tasks returned
DrawChartReturn ==
    /\ pc = "returned"
    /\ pc' = "idle"
    /\ has_prev' = TRUE
    /\ prev_tasks' = tasks
    /\ prev_schedule' = start_days
    /\ IF DOMAIN tasks = {}
       THEN /\ uncaught' = "ValueError"
            /\ UNCHANGED canvas
       ELSE IF total_weeks = 0
       THEN /\ uncaught' = "ZeroDivisionError"
            /\ UNCHANGED canvas
       ELSE /\ canvas' = Bars
            /\ UNCHANGED uncaught
    /\ UNCHANGED <<tasks, sched, canvas_before, message, json_file, loads>>

\* lines 105-107: order_tasks raised
DrawChartExcept ==
    /\ pc = "raised"
    /\ pc' = "idle"
    /\ message' = exc
    /\ UNCHANGED <<tasks, sched, prev, canvas, canvas_before, uncaught, json_file, loads>>

\* --------------------------------------------------------------- handlers
\* lines 179-185, with the file the dialog names
open_csv(file) ==
    /\ pc = "idle"
    /\ loads < MaxLoads
    /\ loads' = loads + 1
    /\ tasks' = read_tasks_csv(file)
    /\ message' = ""
    /\ uncaught' = ""
    /\ DrawChartEnter(read_tasks_csv(file))
    /\ UNCHANGED <<prev, json_file>>

\* lines 188-194, with the document of the file the dialog names
load_json(data) ==
    /\ pc = "idle"
    /\ loads < MaxLoads
    /\ loads' = loads + 1
    /\ tasks' = load_tasks_json(data)
    /\ message' = ""
    /\ uncaught' = ""
    /\ DrawChartEnter(load_tasks_json(data))
    /\ UNCHANGED <<prev, json_file>>

\* lines 197-200
save_json ==
    /\ pc = "idle"
    /\ \E data \in save_tasks_json : json_file' = {data}
    /\ UNCHANGED <<tasks, pc, sched, prev, canvas, canvas_before, message, uncaught, loads>>

\* lines 228-229: the Dark Mode checkbutton redraws the chart (the colours
\* are not part of the model)
toggle_dark_mode ==
    /\ pc = "idle"
    /\ message' = ""
    /\ uncaught' = ""
    /\ DrawChartEnter(tasks)
    /\ UNCHANGED <<tasks, prev, json_file, loads>>

\* line 16 and lines 212-235: the state when the main loop starts
InitApp ==
    /\ tasks = EmptyDict
    /\ pc = "idle"
    /\ incomplete = {}
    /\ completed = {}
    /\ start_days = EmptyDict
    /\ progress = FALSE
    /\ todo = {}
    /\ exc = ""
    /\ passes = 0
    /\ has_prev = FALSE
    /\ prev_tasks = EmptyDict
    /\ prev_schedule = EmptyDict
    /\ canvas = {}
    /\ canvas_before = {}
    /\ message = ""
    /\ uncaught = ""
    /\ json_file = NoFile
    /\ loads = 0

NextApp ==
    \/ order_tasks
    \/ DrawChartReturn
    \/ DrawChartExcept
    \/ \E file \in CsvFiles : open_csv(file)
    \/ \E data \in JsonDocs \cup json_file : load_json(data)
    \/ save_json
    \/ toggle_dark_mode

SpecApp == InitApp /\ [][NextApp]_vars
\* ------------------------------------------------ properties of the handlers
\* C4: after a handler whose scheduling attempt failed, the repository is
\* still the one that was last scheduled successfully.
C4_FailedLoadKeepsValidState ==
    (pc = "idle" /\ message = CircularMsg /\ has_prev) => tasks = prev_tasks

\* C5: after a draw_chart in which order_tasks raised, the canvas shows what
\* it showed when draw_chart was called.
C5_FailedDrawKeepsCanvas ==
    (pc = "idle" /\ message # "") => canvas = canvas_before

\* C6: every start in a schedule order_tasks returns for a loaded repository
\* is non-negative.
C6_NonNegativeStarts ==
    pc = "returned" => \A t \in DOMAIN start_days : start_days[t] >= 0
\* C11: a draw_chart whose order_tasks returned ends without an uncaught
\* exception and leaves exactly one bar per task of the repository on the
\* canvas, the empty repository included.
C11_DrawsOneBarPerTask ==
    (pc = "idle" /\ has_prev /\ prev_tasks = tasks /\ message = "") =>
        /\ uncaught = ""
        /\ {b.task_id : b \in canvas} = DOMAIN tasks
        /\ Cardinality(canvas) = Cardinality(DOMAIN tasks)
\* ------------------------------------------------------- save and load back
\* The repositories that are saved and loaded back: up to two tasks, with
\* two titles, every duration and every set of at most two prerequisites.
SaveTitles == {"A", "B"}

SaveRepositories ==
    UNION {[K -> [title : SaveTitles, duration : Durations,
                  prerequisites : {P \in SUBSET TaskIds : Cardinality(P) <= 2}]]
           : K \in SUBSET {1, 2}}

\* The main loop with a repository in memory and no file written yet.
InitSave ==
    /\ tasks \in SaveRepositories
    /\ pc = "idle"
    /\ incomplete = {}
    /\ completed = {}
    /\ start_days = EmptyDict
    /\ progress = FALSE
    /\ todo = {}
    /\ exc = ""
    /\ passes = 0
    /\ has_prev = FALSE
    /\ prev_tasks = EmptyDict
    /\ prev_schedule = EmptyDict
    /\ canvas = {}
    /\ canvas_before = {}
    /\ message = ""
    /\ uncaught = ""
    /\ json_file = NoFile
    /\ loads = 0

\* Save JSON, and Load JSON of the file Save JSON wrote.
NextSave ==
    \/ save_json
    \/ \E data \in json_file : load_json(data)
    \/ order_tasks
    \/ DrawChartReturn
    \/ DrawChartExcept

SpecSave == InitSave /\ [][NextSave]_vars

JsonKeys == {"id", "title", "duration", "prerequisites"}

\* C12: the file save_tasks_json writes holds the four fields of every task
\* and no schedule, and load_tasks_json of it is the repository that was
\* saved: same ids, and for each the same title, duration and prerequisite set.
C12_SaveLoadRoundTrip ==
    \A data \in json_file :
        /\ \A k \in 1..Len(data) : DOMAIN data[k] = JsonKeys
        /\ load_tasks_json(data) = tasks

C12_Witness ==
    /\ pc = "idle"
    /\ loads >= 1
    /\ DOMAIN tasks = {1, 2}
    /\ tasks[1].title # tasks[2].title
    /\ tasks[1].duration # tasks[2].duration
    /\ Cardinality(tasks[1].prerequisites) = 2
    /\ \E data \in json_file : data[1].id = 2 /\ load_tasks_json(data) = tasks
====
